---- MODULE Spec2Model ----
(***************************************************************************)
(* Model of git-stats (src/main.py): per-author line and character         *)
(* statistics over a list of commits.                                      *)
(*                                                                         *)
(* A Python string is a sequence of one-character strings, so that         *)
(* startswith, slicing, casefold, join and len are computed, not assumed.  *)
(* A defaultdict(int) is a function whose DOMAIN is the set of keys that   *)
(* have been touched; a Counter is a sequence of <<value, count>> pairs in *)
(* insertion order.                                                        *)
(***************************************************************************)
EXTENDS Integers, Sequences, FiniteSets, TLC

\* ------------------------------------------------------------------ bounds
MaxStrLen == 3      \* longest string handed to levenshtein in SpecLev
MaxCommits == 2     \* Spec: commits in the commit list
MaxCounted == 3     \* Spec: '-' and '+' lines counted, over all the patches of a run
MaxAggCommits == 3  \* SpecAgg: commits in the commit list
MaxAggCounted == 1  \* SpecAgg: '-' and '+' lines counted, over all the patches
MaxWalkCommits == 1 \* SpecWalk: commits in the commit list
MaxWalkCounted == 3 \* SpecWalk: '-' and '+' lines counted, over all the patches
MaxPermCommits == 2 \* SpecPerm: commits of the repository given in advance
MaxScanLen == 3     \* SpecScan: lines of the patch given in advance

\* ------------------------------------------------------ string primitives
Min(x, y) == IF x <= y THEN x ELSE y

Min3(x, y, z) == Min(x, Min(y, z))

\* s.startswith(p)
StartsWith(s, p) == Len(s) >= Len(p) /\ SubSeq(s, 1, Len(p)) = p

\* one character of str.casefold(), on the characters the inputs use
FoldChar(c) == IF c = "A" THEN "a" ELSE IF c = "B" THEN "b" ELSE IF c = "X" THEN "x" ELSE c

\* str.casefold()
casefold(s) == [i \in 1..Len(s) |-> FoldChar(s[i])]

\* sep.join(list)
RECURSIVE Join(_, _)
Join(list, sep) ==
    IF list = <<>> THEN <<>>
    ELSE IF Len(list) = 1 THEN list[1]
    ELSE list[1] \o sep \o Join(Tail(list), sep)

\* dict.get(k, 0) on a defaultdict(int)
Get(f, k) == IF k \in DOMAIN f THEN f[k] ELSE 0

\* f[k] += n on a defaultdict(int): the key is created when it is missing
Add(f, k, n) == [x \in (DOMAIN f) \cup {k} |-> IF x = k THEN Get(f, k) + n ELSE f[x]]

\* ------------------------------------------------------------ levenshtein
\* the loop "for j in range(1, la + 1)" filling one row (mutated: the
\* substitution is charged even when the characters match)
RECURSIVE LevInnerLoopAlwaysCharge(_, _, _, _, _)
LevInnerLoopAlwaysCharge(a, c, previous, current, j) ==
    IF j > Len(a) THEN current
    ELSE LET insert_cost == previous[j + 1] + 1
             delete_cost == current[j] + 1
             replace_cost == previous[j] + 1
         IN LevInnerLoopAlwaysCharge(a, c, previous,
                [current EXCEPT ![j + 1] = Min3(insert_cost, delete_cost, replace_cost)],
                j + 1)

\* the loop "for j in range(1, la + 1)" filling one row; Python's index j
\* is position j + 1 here
RECURSIVE LevInnerLoop(_, _, _, _, _)
LevInnerLoop(a, c, previous, current, j) ==
    IF j > Len(a) THEN current
    ELSE LET insert_cost == previous[j + 1] + 1
             delete_cost == current[j] + 1
             replace_cost == previous[j] + (IF a[j] = c THEN 0 ELSE 1)
         IN LevInnerLoop(a, c, previous,
                [current EXCEPT ![j + 1] = Min3(insert_cost, delete_cost, replace_cost)],
                j + 1)

\* the loop "for i in range(1, lb + 1)" over the longer string
RECURSIVE LevOuterLoop(_, _, _, _)
LevOuterLoop(a, b, previous, i) ==
    IF i > Len(b) THEN previous
    ELSE LevOuterLoop(a, b,
            LevInnerLoop(a, b[i], previous, <<i>> \o [k \in 1..Len(a) |-> 0], 1),
            i + 1)

\* levenshtein (mutated: "if la == 0: return la", the own length is returned)
levenshteinFirstEmptyOwnLength(a0, b0) ==
    IF a0 = b0 THEN 0
    ELSE IF Len(a0) = 0 THEN Len(a0)
    ELSE IF Len(b0) = 0 THEN Len(a0)
    ELSE LET a == IF Len(a0) > Len(b0) THEN b0 ELSE a0
             b == IF Len(a0) > Len(b0) THEN a0 ELSE b0
         IN LevOuterLoop(a, b, [k \in 1..(Len(a) + 1) |-> k - 1], 1)[Len(a) + 1]

\* levenshtein (mutated: "if lb == 0: return lb", the own length is returned)
levenshteinSecondEmptyOwnLength(a0, b0) ==
    IF a0 = b0 THEN 0
    ELSE IF Len(a0) = 0 THEN Len(b0)
    ELSE IF Len(b0) = 0 THEN Len(b0)
    ELSE LET a == IF Len(a0) > Len(b0) THEN b0 ELSE a0
             b == IF Len(a0) > Len(b0) THEN a0 ELSE b0
         IN LevOuterLoop(a, b, [k \in 1..(Len(a) + 1) |-> k - 1], 1)[Len(a) + 1]

\* def levenshtein(a, b): the special cases, the swap that makes a the
\* shorter string, and the two-row dynamic programme
levenshtein(a0, b0) ==
    IF a0 = b0 THEN 0
    ELSE IF Len(a0) = 0 THEN Len(b0)
    ELSE IF Len(b0) = 0 THEN Len(a0)
    ELSE LET a == IF Len(a0) > Len(b0) THEN b0 ELSE a0
             b == IF Len(a0) > Len(b0) THEN a0 ELSE b0
         IN LevOuterLoop(a, b, [k \in 1..(Len(a) + 1) |-> k - 1], 1)[Len(a) + 1]

\* ------------------------------------------------------------------ inputs
\* <<author name, author email>> of the entries of the commit list (%aN, %aE):
\* "A" and "a", and "x" and "X", differ only in case
Identities == {<<<<"A">>, <<"x">>>>, <<<<"a">>, <<"y">>>>, <<<<"B">>, <<"X">>>>}

\* group_by choices of the argument parser
GroupModes == {"name", "email"}

NoNewlineMarker == <<"\\", " ", "N", "o", " ", "n", "e", "w", "l", "i", "n", "e">>

\* physical lines a patch is made of (patch.splitlines())
Lines ==
    { <<"d", "i", "f", "f", " ">>,
      <<"i", "n", "d", "e", "x", " ">>,
      <<"-", "-", "-", " ", "a">>,
      <<"+", "+", "+", " ", "b">>,
      <<"@", "@">>,
      <<>>,
      <<" ", "a">>,
      <<"-", "a", "b", "c">>,
      <<"-", "d", "e">>,
      <<"+", "a", "b", "d">>,
      <<"-">> \o NoNewlineMarker,
      <<"+">> \o NoNewlineMarker }

\* ------------------------------------------------------------------- state
VARIABLES
    group_by,               \* args.group_by
    commits,                \* the entries of the commit list enumerated so far
    key,                    \* key of the commit being processed
    patch,                  \* what fetching the current commit's patch gave:
                            \* "failed", "empty" (the empty string) or "text"
    pc,                     \* "commit": between commits; "patch": before the first
                            \* line of a patch; "walk": after a line of it; "done"
    in_hunk, del_buffer, add_buffer,
    added_lines, deleted_lines, commits_count,
    added_chars, deleted_chars, modified_chars,
    author_names_by_email, canonical_email,
    emails_by_name, canonical_name,
    errors,                 \* "Failed to get patch" records logged
    flush_pairs,            \* per key, sum of pairs over the "flush for" records
    flush_surplus_added,    \* per key, sum of surplus_added over them
    flush_surplus_deleted,  \* per key, sum of surplus_deleted over them
    row_keys,               \* sorted(authors, key=sort_key, reverse=True)
    rows,                   \* rows written after the header
    levA, levB, levOut,     \* arguments and result of a levenshtein call
    history,                \* a repository given in advance: its commits, each
                            \* <<author name, author email, patch lines>>
    replay_order,           \* the order in which the run enumerates history
    line_no,                \* lines of the current patch the walk has consumed
    runs_left,              \* further runs over history after the current one
    first_totals            \* the counters at the end of the first run

walker == <<in_hunk, del_buffer, add_buffer>>

counters == <<added_lines, deleted_lines, commits_count,
              added_chars, deleted_chars, modified_chars>>

aliases == <<author_names_by_email, canonical_email, emails_by_name, canonical_name>>

flushlog == <<flush_pairs, flush_surplus_added, flush_surplus_deleted>>

output == <<row_keys, rows>>

levvars == <<levA, levB, levOut>>

replay == <<history, replay_order, line_no, runs_left, first_totals>>

vars == <<group_by, commits, key, patch, pc, walker, counters, aliases,
          errors, flushlog, output, levvars, replay>>

EmptyDict == [x \in {} |-> 0]

InitMain ==
    /\ group_by \in GroupModes
    /\ commits = <<>>
    /\ key = <<>>
    /\ patch = "none"
    /\ pc = "commit"
    /\ in_hunk = FALSE
    /\ del_buffer = <<>>
    /\ add_buffer = <<>>
    /\ added_lines = EmptyDict
    /\ deleted_lines = EmptyDict
    /\ commits_count = EmptyDict
    /\ added_chars = EmptyDict
    /\ deleted_chars = EmptyDict
    /\ modified_chars = EmptyDict
    /\ author_names_by_email = EmptyDict
    /\ canonical_email = EmptyDict
    /\ emails_by_name = EmptyDict
    /\ canonical_name = EmptyDict
    /\ errors = 0
    /\ flush_pairs = EmptyDict
    /\ flush_surplus_added = EmptyDict
    /\ flush_surplus_deleted = EmptyDict
    /\ row_keys = <<>>
    /\ rows = <<>>

\* no repository given in advance: the runs draw commits and lines freely
NoReplay ==
    /\ history = <<>>
    /\ replay_order = <<>>
    /\ line_no = 0
    /\ runs_left = 0
    /\ first_totals = <<>>

Init ==
    /\ InitMain
    /\ levA = <<>>
    /\ levB = <<>>
    /\ levOut = -1
    /\ NoReplay

\* ------------------------------------------------------------ aggregation
\* dict.setdefault (mutated: a plain assignment d[k] = v, the last value wins)
SetAlways(d, k, v) ==
    [x \in (DOMAIN d) \cup {k} |-> IF x = k THEN v ELSE d[x]]

\* dict.setdefault(k, v)
SetDefault(d, k, v) ==
    IF k \in DOMAIN d THEN d
    ELSE [x \in (DOMAIN d) \cup {k} |-> IF x = k THEN v ELSE d[x]]

\* Counter[v] += 1: a new value is appended, in insertion order
CounterInc(c, v) ==
    IF \E n \in 1..Len(c) : c[n][1] = v
    THEN [n \in 1..Len(c) |-> IF c[n][1] = v THEN <<v, c[n][2] + 1>> ELSE c[n]]
    ELSE Append(c, <<v, 1>>)

\* defaultdict(Counter)[k][v] += 1
TallyInc(d, k, v) ==
    [x \in (DOMAIN d) \cup {k} |->
        IF x = k THEN CounterInc(IF k \in DOMAIN d THEN d[k] ELSE <<>>, v) ELSE d[x]]

\* the key a commit is grouped under (mutated: the field is not case-folded)
ResolveKeyRaw(aname, aemail) ==
    IF group_by = "name" THEN aname ELSE aemail

\* the key a commit is grouped under
ResolveKey(aname, aemail) ==
    IF group_by = "name" THEN casefold(aname) ELSE casefold(aemail)

\* key resolution, canonical value, alias tally and commit count of one commit
Attribute(aname, aemail) ==
    /\ commits' = Append(commits, <<aname, aemail>>)
    /\ key' = ResolveKey(aname, aemail)
    /\ IF group_by = "name"
       THEN /\ canonical_name' = SetDefault(canonical_name, key', aname)
            /\ emails_by_name' = TallyInc(emails_by_name, key', aemail)
            /\ UNCHANGED <<canonical_email, author_names_by_email>>
       ELSE /\ canonical_email' = SetDefault(canonical_email, key', aemail)
            /\ author_names_by_email' = TallyInc(author_names_by_email, key', aname)
            /\ UNCHANGED <<canonical_name, emails_by_name>>
    /\ commits_count' = Add(commits_count, key', 1)

\* a commit both of whose "git show" calls fail: logged, then "continue"
CommitFailed(aname, aemail, maxCommits) ==
    /\ pc = "commit"
    /\ Len(commits) < maxCommits
    /\ Attribute(aname, aemail)
    /\ patch' = "failed"
    /\ errors' = errors + 1
    /\ UNCHANGED <<group_by, pc, walker, added_lines, deleted_lines,
                   added_chars, deleted_chars, modified_chars, flushlog, output, levvars>>

\* CommitEmpty (mutated: the empty patch is found before the commit is counted)
CommitEmptyUncounted(aname, aemail, maxCommits) ==
    /\ pc = "commit"
    /\ Len(commits) < maxCommits
    /\ commits' = Append(commits, <<aname, aemail>>)
    /\ key' = ResolveKey(aname, aemail)
    /\ patch' = "empty"
    /\ UNCHANGED <<group_by, pc, walker, counters, aliases, errors, flushlog,
                   output, levvars>>

\* a commit whose patch is the empty string: "continue"
CommitEmpty(aname, aemail, maxCommits) ==
    /\ pc = "commit"
    /\ Len(commits) < maxCommits
    /\ Attribute(aname, aemail)
    /\ patch' = "empty"
    /\ UNCHANGED <<group_by, pc, walker, added_lines, deleted_lines,
                   added_chars, deleted_chars, modified_chars, errors, flushlog,
                   output, levvars>>

\* CommitText (mutated: "in_hunk = False" is left out, the walk starts in
\* the state the previous patch ended in)
CommitTextKeepsHunk(aname, aemail, maxCommits) ==
    /\ pc = "commit"
    /\ Len(commits) < maxCommits
    /\ Attribute(aname, aemail)
    /\ patch' = "text"
    /\ pc' = "patch"
    /\ in_hunk' = in_hunk
    /\ del_buffer' = <<>>
    /\ add_buffer' = <<>>
    /\ UNCHANGED <<group_by, added_lines, deleted_lines, added_chars,
                   deleted_chars, modified_chars, errors, flushlog, output, levvars>>

\* a commit with a patch: the walk starts outside any hunk with empty buffers
CommitText(aname, aemail, maxCommits) ==
    /\ pc = "commit"
    /\ Len(commits) < maxCommits
    /\ Attribute(aname, aemail)
    /\ patch' = "text"
    /\ pc' = "patch"
    /\ in_hunk' = FALSE
    /\ del_buffer' = <<>>
    /\ add_buffer' = <<>>
    /\ UNCHANGED <<group_by, added_lines, deleted_lines, added_chars,
                   deleted_chars, modified_chars, errors, flushlog, output, levvars>>

\* ------------------------------------------------------------------ flush
\* "for idx in range(pairs)": modified_chars[local_key] += dist
RECURSIVE FlushPairs(_, _, _)
FlushPairs(mc, local_key, idx) ==
    IF idx > Min(Len(del_buffer), Len(add_buffer)) THEN mc
    ELSE FlushPairs(Add(mc, local_key, levenshtein(del_buffer[idx], add_buffer[idx])),
                    local_key, idx + 1)

\* the surplus loop (mutated: it takes the surplus lines from the front of the
\* buffer, "buffer[:len(buffer) - pairs]")
RECURSIVE FlushSurplusFromFront(_, _, _, _)
FlushSurplusFromFront(chars, local_key, buffer, idx) ==
    IF idx > Len(buffer) THEN chars
    ELSE FlushSurplusFromFront(Add(chars, local_key, Len(buffer[1])), local_key,
                               Tail(buffer), idx)

\* "for line in buffer[pairs:]": chars[local_key] += len(line)
RECURSIVE FlushSurplus(_, _, _, _)
FlushSurplus(chars, local_key, buffer, idx) ==
    IF idx > Len(buffer) THEN chars
    ELSE FlushSurplus(Add(chars, local_key, Len(buffer[idx])), local_key, buffer, idx + 1)

\* flush_buffers (mutated: the buffers are not reset after the flush)
flush_buffers_keeps_lines(local_key) ==
    IF del_buffer = <<>> /\ add_buffer = <<>>
    THEN UNCHANGED <<del_buffer, add_buffer, modified_chars, added_chars,
                     deleted_chars, flushlog>>
    ELSE LET pairs == Min(Len(del_buffer), Len(add_buffer))
         IN /\ modified_chars' = FlushPairs(modified_chars, local_key, 1)
            /\ added_chars' = FlushSurplus(added_chars, local_key, add_buffer, pairs + 1)
            /\ deleted_chars' = FlushSurplus(deleted_chars, local_key, del_buffer, pairs + 1)
            /\ flush_pairs' = Add(flush_pairs, local_key, pairs)
            /\ flush_surplus_added' = Add(flush_surplus_added, local_key,
                                          Len(add_buffer) - pairs)
            /\ flush_surplus_deleted' = Add(flush_surplus_deleted, local_key,
                                            Len(del_buffer) - pairs)
            /\ UNCHANGED <<del_buffer, add_buffer>>

\* flush_buffers (mutated: a surplus removed line is taken off added_chars, as
\* if added_chars were the net count)
flush_buffers_net(local_key) ==
    IF del_buffer = <<>> /\ add_buffer = <<>>
    THEN UNCHANGED <<del_buffer, add_buffer, modified_chars, added_chars,
                     deleted_chars, flushlog>>
    ELSE LET pairs == Min(Len(del_buffer), Len(add_buffer))
         IN /\ modified_chars' = FlushPairs(modified_chars, local_key, 1)
            /\ added_chars' =
                  Add(FlushSurplus(added_chars, local_key, add_buffer, pairs + 1),
                      local_key,
                      0 - Get(FlushSurplus(EmptyDict, local_key, del_buffer, pairs + 1),
                              local_key))
            /\ deleted_chars' = FlushSurplus(deleted_chars, local_key, del_buffer, pairs + 1)
            /\ flush_pairs' = Add(flush_pairs, local_key, pairs)
            /\ flush_surplus_added' = Add(flush_surplus_added, local_key,
                                          Len(add_buffer) - pairs)
            /\ flush_surplus_deleted' = Add(flush_surplus_deleted, local_key,
                                            Len(del_buffer) - pairs)
            /\ del_buffer' = <<>>
            /\ add_buffer' = <<>>

\* flush_buffers (mutated: the records of the first commit's key are updated,
\* not those of local_key)
flush_buffers_first_key(local_key) ==
    LET first_key == ResolveKey(commits[1][1], commits[1][2]) IN
    IF del_buffer = <<>> /\ add_buffer = <<>>
    THEN UNCHANGED <<del_buffer, add_buffer, modified_chars, added_chars,
                     deleted_chars, flushlog>>
    ELSE LET pairs == Min(Len(del_buffer), Len(add_buffer))
         IN /\ modified_chars' = FlushPairs(modified_chars, first_key, 1)
            /\ added_chars' = FlushSurplus(added_chars, first_key, add_buffer, pairs + 1)
            /\ deleted_chars' = FlushSurplus(deleted_chars, first_key, del_buffer, pairs + 1)
            /\ flush_pairs' = Add(flush_pairs, first_key, pairs)
            /\ flush_surplus_added' = Add(flush_surplus_added, first_key,
                                          Len(add_buffer) - pairs)
            /\ flush_surplus_deleted' = Add(flush_surplus_deleted, first_key,
                                            Len(del_buffer) - pairs)
            /\ del_buffer' = <<>>
            /\ add_buffer' = <<>>

flush_buffers(local_key) ==
    IF del_buffer = <<>> /\ add_buffer = <<>>
    THEN UNCHANGED <<del_buffer, add_buffer, modified_chars, added_chars,
                     deleted_chars, flushlog>>
    ELSE LET pairs == Min(Len(del_buffer), Len(add_buffer))
         IN /\ modified_chars' = FlushPairs(modified_chars, local_key, 1)
            /\ added_chars' = FlushSurplus(added_chars, local_key, add_buffer, pairs + 1)
            /\ deleted_chars' = FlushSurplus(deleted_chars, local_key, del_buffer, pairs + 1)
            /\ flush_pairs' = Add(flush_pairs, local_key, pairs)
            /\ flush_surplus_added' = Add(flush_surplus_added, local_key,
                                          Len(add_buffer) - pairs)
            /\ flush_surplus_deleted' = Add(flush_surplus_deleted, local_key,
                                            Len(del_buffer) - pairs)
            /\ del_buffer' = <<>>
            /\ add_buffer' = <<>>

\* ------------------------------------------------------------- patch walk
\* IsFileHeader (mutated: only "diff " and "index " are tested before the
\* other rules)
IsFileHeaderDiffIndexOnly(raw) ==
    \/ StartsWith(raw, <<"d", "i", "f", "f", " ">>)
    \/ StartsWith(raw, <<"i", "n", "d", "e", "x", " ">>)

\* the four startswith tests at the top of the loop
IsFileHeader(raw) ==
    \/ StartsWith(raw, <<"d", "i", "f", "f", " ">>)
    \/ StartsWith(raw, <<"i", "n", "d", "e", "x", " ">>)
    \/ StartsWith(raw, <<"-", "-", "-", " ">>)
    \/ StartsWith(raw, <<"+", "+", "+", " ">>)

IsHunkHeader(raw) == StartsWith(raw, <<"@", "@">>)

\* line_content.startswith("\\ No newline")
IsNoNewline(line_content) == StartsWith(line_content, NoNewlineMarker)

\* sum of a defaultdict(int)'s values
RECURSIVE SumValues(_)
SumValues(f) ==
    IF DOMAIN f = {} THEN 0
    ELSE LET k == CHOOSE x \in DOMAIN f : TRUE
         IN f[k] + SumValues([x \in (DOMAIN f) \ {k} |-> f[x]])

\* the '-' and '+' lines counted so far
Counted == SumValues(added_lines) + SumValues(deleted_lines)

\* what every iteration of the loop leaves alone
WalkFrame ==
    /\ pc \in {"patch", "walk"}
    /\ pc' = "walk"
    /\ UNCHANGED <<group_by, commits, key, patch, commits_count, aliases, errors,
                   output, levvars>>

\* FileHeaderLine (mutated: the buffers are not flushed)
FileHeaderLineNoFlush(raw) ==
    /\ WalkFrame
    /\ IsFileHeader(raw)
    /\ in_hunk' = FALSE
    /\ UNCHANGED <<del_buffer, add_buffer, added_lines, deleted_lines, added_chars,
                   deleted_chars, modified_chars, flushlog>>

\* a file-header line: flush, then "in_hunk = False"
FileHeaderLine(raw) ==
    /\ WalkFrame
    /\ IsFileHeader(raw)
    /\ flush_buffers(key)
    /\ in_hunk' = FALSE
    /\ UNCHANGED <<added_lines, deleted_lines>>

HunkHeaderLine(raw) ==
    /\ WalkFrame
    /\ ~IsFileHeader(raw)
    /\ IsHunkHeader(raw)
    /\ flush_buffers(key)
    /\ in_hunk' = TRUE
    /\ UNCHANGED <<added_lines, deleted_lines>>

\* OutsideHunkLine (mutated: "if not in_hunk: continue" comes after the
\* counting, so a '+' line outside any hunk is counted)
OutsideHunkLineCountsAdded(raw) ==
    /\ WalkFrame
    /\ ~IsFileHeader(raw)
    /\ ~IsHunkHeader(raw)
    /\ ~in_hunk
    /\ added_lines' = IF raw # <<>> /\ raw[1] = "+"
                      THEN Add(added_lines, key, 1) ELSE added_lines
    /\ UNCHANGED <<walker, deleted_lines, added_chars, deleted_chars,
                   modified_chars, flushlog>>

\* "if not in_hunk: continue"
OutsideHunkLine(raw) ==
    /\ WalkFrame
    /\ ~IsFileHeader(raw)
    /\ ~IsHunkHeader(raw)
    /\ ~in_hunk
    /\ UNCHANGED <<walker, added_lines, deleted_lines, added_chars, deleted_chars,
                   modified_chars, flushlog>>

BlankLine(raw) ==
    /\ WalkFrame
    /\ ~IsFileHeader(raw)
    /\ ~IsHunkHeader(raw)
    /\ in_hunk
    /\ Len(raw) = 0
    /\ flush_buffers(key)
    /\ UNCHANGED <<in_hunk, added_lines, deleted_lines>>

\* NoNewlineLine (mutated: the marker test comes after the counting)
NoNewlineLineCounted(raw) ==
    /\ WalkFrame
    /\ ~IsFileHeader(raw)
    /\ ~IsHunkHeader(raw)
    /\ in_hunk
    /\ Len(raw) > 0
    /\ raw[1] \in {"-", "+"}
    /\ IsNoNewline(Tail(raw))
    /\ IF raw[1] = "-"
       THEN deleted_lines' = Add(deleted_lines, key, 1) /\ UNCHANGED added_lines
       ELSE added_lines' = Add(added_lines, key, 1) /\ UNCHANGED deleted_lines
    /\ UNCHANGED <<walker, added_chars, deleted_chars, modified_chars, flushlog>>

\* a '-' or '+' line carrying the no-newline marker: "continue"
NoNewlineLine(raw) ==
    /\ WalkFrame
    /\ ~IsFileHeader(raw)
    /\ ~IsHunkHeader(raw)
    /\ in_hunk
    /\ Len(raw) > 0
    /\ raw[1] \in {"-", "+"}
    /\ IsNoNewline(Tail(raw))
    /\ UNCHANGED <<walker, added_lines, deleted_lines, added_chars, deleted_chars,
                   modified_chars, flushlog>>

RemovedLine(raw, maxCounted) ==
    /\ WalkFrame
    /\ ~IsFileHeader(raw)
    /\ ~IsHunkHeader(raw)
    /\ in_hunk
    /\ Len(raw) > 0
    /\ raw[1] = "-"
    /\ ~IsNoNewline(Tail(raw))
    /\ Counted < maxCounted
    /\ deleted_lines' = Add(deleted_lines, key, 1)
    /\ del_buffer' = Append(del_buffer, Tail(raw))
    /\ UNCHANGED <<in_hunk, add_buffer, added_lines, added_chars, deleted_chars,
                   modified_chars, flushlog>>

AddedLine(raw, maxCounted) ==
    /\ WalkFrame
    /\ ~IsFileHeader(raw)
    /\ ~IsHunkHeader(raw)
    /\ in_hunk
    /\ Len(raw) > 0
    /\ raw[1] = "+"
    /\ ~IsNoNewline(Tail(raw))
    /\ Counted < maxCounted
    /\ added_lines' = Add(added_lines, key, 1)
    /\ add_buffer' = Append(add_buffer, Tail(raw))
    /\ UNCHANGED <<in_hunk, del_buffer, deleted_lines, added_chars, deleted_chars,
                   modified_chars, flushlog>>

\* ContextLine (mutated: the buffers are not flushed)
ContextLineNoFlush(raw) ==
    /\ WalkFrame
    /\ ~IsFileHeader(raw)
    /\ ~IsHunkHeader(raw)
    /\ in_hunk
    /\ Len(raw) > 0
    /\ raw[1] \notin {"-", "+"}
    /\ UNCHANGED <<walker, added_lines, deleted_lines, added_chars, deleted_chars,
                   modified_chars, flushlog>>

\* "else": a context line flushes the buffers
ContextLine(raw) ==
    /\ WalkFrame
    /\ ~IsFileHeader(raw)
    /\ ~IsHunkHeader(raw)
    /\ in_hunk
    /\ Len(raw) > 0
    /\ raw[1] \notin {"-", "+"}
    /\ flush_buffers(key)
    /\ UNCHANGED <<in_hunk, added_lines, deleted_lines>>

\* EndPatch (mutated: the leftover buffers are not flushed)
EndPatchNoFlush ==
    /\ pc = "walk"
    /\ pc' = "commit"
    /\ UNCHANGED <<group_by, commits, key, patch, walker, counters, aliases, errors,
                   flushlog, output, levvars>>

\* end of patch: flush leftover buffers; a patch with text has a line
EndPatch ==
    /\ pc = "walk"
    /\ flush_buffers(key)
    /\ pc' = "commit"
    /\ UNCHANGED <<group_by, commits, key, patch, in_hunk, added_lines,
                   deleted_lines, commits_count, aliases, errors, output, levvars>>

\* ----------------------------------------------------------------- output
\* InsertDesc (mutated: the item goes before the items of its own weight, so
\* equal weights come out in reverse order)
RECURSIVE InsertDescBeforeEqual(_, _)
InsertDescBeforeEqual(sorted, item) ==
    IF sorted = <<>> THEN <<item>>
    ELSE IF Head(sorted)[2] > item[2]
         THEN <<Head(sorted)>> \o InsertDescBeforeEqual(Tail(sorted), item)
         ELSE <<item>> \o sorted

\* one step of a stable sort by descending weight of <<value, weight>> items:
\* the item goes after every item of at least its weight
RECURSIVE InsertDesc(_, _)
InsertDesc(sorted, item) ==
    IF sorted = <<>> THEN <<item>>
    ELSE IF Head(sorted)[2] >= item[2]
         THEN <<Head(sorted)>> \o InsertDesc(Tail(sorted), item)
         ELSE <<item>> \o sorted

\* sorted(items, key=weight, reverse=True): stable, equal weights keep their order
RECURSIVE SortedDesc(_)
SortedDesc(items) ==
    IF items = <<>> THEN <<>>
    ELSE InsertDesc(SortedDesc(SubSeq(items, 1, Len(items) - 1)), items[Len(items)])

\* [v for v, _ in counter.most_common()]
most_common(counter) ==
    LET s == SortedDesc(counter) IN [n \in 1..Len(s) |-> s[n][1]]

\* the keys of the four dictionaries the output is built from
authors ==
    (DOMAIN commits_count) \cup (DOMAIN added_lines)
        \cup (DOMAIN added_chars) \cup (DOMAIN modified_chars)

sort_key(a) == Get(modified_chars, a) + Get(added_chars, a)

\* the orders in which a set of strings may be iterated
Orderings(S) ==
    {s \in [1..Cardinality(S) -> S] : \A m, n \in 1..Cardinality(S) : m # n => s[m] # s[n]}

\* sorted(authors, ...) (mutated: "reverse=True" is left out)
SortAuthorsAscending(order) ==
    LET s == SortedDesc([n \in 1..Len(order) |-> <<order[n], 0 - sort_key(order[n])>>])
    IN [n \in 1..Len(s) |-> s[n][1]]

\* sorted(authors, key=sort_key, reverse=True) for one iteration order
SortAuthors(order) ==
    LET s == SortedDesc([n \in 1..Len(order) |-> <<order[n], sort_key(order[n])>>])
    IN [n \in 1..Len(s) |-> s[n][1]]

Semicolon == <<";">>

\* Row (mutated: net_lines is deleted minus added)
RowNetLinesReversed(k) ==
    LET author_field ==
            IF group_by = "email"
            THEN Join(most_common(IF k \in DOMAIN author_names_by_email
                                  THEN author_names_by_email[k] ELSE <<>>), Semicolon)
            ELSE IF k \in DOMAIN canonical_name THEN canonical_name[k] ELSE k
        email_field ==
            IF group_by = "email"
            THEN IF k \in DOMAIN canonical_email THEN canonical_email[k] ELSE k
            ELSE Join(most_common(IF k \in DOMAIN emails_by_name
                                  THEN emails_by_name[k] ELSE <<>>), Semicolon)
        added_l == Get(added_lines, k)
        deleted_l == Get(deleted_lines, k)
        a_chars == Get(added_chars, k)
        d_chars == Get(deleted_chars, k)
        m_chars == Get(modified_chars, k)
    IN [author |-> author_field,
        email |-> email_field,
        commits |-> Get(commits_count, k),
        added_lines |-> added_l,
        deleted_lines |-> deleted_l,
        added_plus_deleted_lines |-> added_l + deleted_l,
        net_lines |-> deleted_l - added_l,
        added_chars |-> a_chars,
        deleted_chars |-> d_chars,
        modified_chars |-> m_chars,
        added_or_modified_chars |-> m_chars + a_chars,
        net_chars |-> a_chars - d_chars]

\* the row written for one key
Row(k) ==
    LET author_field ==
            IF group_by = "email"
            THEN Join(most_common(IF k \in DOMAIN author_names_by_email
                                  THEN author_names_by_email[k] ELSE <<>>), Semicolon)
            ELSE IF k \in DOMAIN canonical_name THEN canonical_name[k] ELSE k
        email_field ==
            IF group_by = "email"
            THEN IF k \in DOMAIN canonical_email THEN canonical_email[k] ELSE k
            ELSE Join(most_common(IF k \in DOMAIN emails_by_name
                                  THEN emails_by_name[k] ELSE <<>>), Semicolon)
        added_l == Get(added_lines, k)
        deleted_l == Get(deleted_lines, k)
        a_chars == Get(added_chars, k)
        d_chars == Get(deleted_chars, k)
        m_chars == Get(modified_chars, k)
    IN [author |-> author_field,
        email |-> email_field,
        commits |-> Get(commits_count, k),
        added_lines |-> added_l,
        deleted_lines |-> deleted_l,
        added_plus_deleted_lines |-> added_l + deleted_l,
        net_lines |-> added_l - deleted_l,
        added_chars |-> a_chars,
        deleted_chars |-> d_chars,
        modified_chars |-> m_chars,
        added_or_modified_chars |-> m_chars + a_chars,
        net_chars |-> a_chars - d_chars]

\* after the last commit: sort the keys and write one row per key
WriteRows ==
    /\ pc = "commit"
    /\ Len(commits) >= 1
    /\ \E order \in Orderings(authors) :
          /\ row_keys' = SortAuthors(order)
          /\ rows' = [n \in 1..Len(order) |-> Row(SortAuthors(order)[n])]
    /\ pc' = "done"
    /\ UNCHANGED <<group_by, commits, key, patch, walker, counters, aliases,
                   errors, flushlog, levvars>>

\* ----------------------------------------------------------- specification
Next ==
    \/ \E id \in Identities : CommitFailed(id[1], id[2], MaxCommits) /\ UNCHANGED replay
    \/ \E id \in Identities : CommitEmpty(id[1], id[2], MaxCommits) /\ UNCHANGED replay
    \/ \E id \in Identities : CommitText(id[1], id[2], MaxCommits) /\ UNCHANGED replay
    \/ \E raw \in Lines : FileHeaderLine(raw) /\ UNCHANGED replay
    \/ \E raw \in Lines : HunkHeaderLine(raw) /\ UNCHANGED replay
    \/ \E raw \in Lines : OutsideHunkLine(raw) /\ UNCHANGED replay
    \/ \E raw \in Lines : BlankLine(raw) /\ UNCHANGED replay
    \/ \E raw \in Lines : NoNewlineLine(raw) /\ UNCHANGED replay
    \/ \E raw \in Lines : RemovedLine(raw, MaxCounted) /\ UNCHANGED replay
    \/ \E raw \in Lines : AddedLine(raw, MaxCounted) /\ UNCHANGED replay
    \/ \E raw \in Lines : ContextLine(raw) /\ UNCHANGED replay
    \/ EndPatch /\ UNCHANGED replay
    \/ WriteRows /\ UNCHANGED replay

Spec == Init /\ [][Next]_vars

\* the same program on more commits with shorter patches
NextAgg ==
    \/ \E id \in Identities : CommitFailed(id[1], id[2], MaxAggCommits) /\ UNCHANGED replay
    \/ \E id \in Identities : CommitEmpty(id[1], id[2], MaxAggCommits) /\ UNCHANGED replay
    \/ \E id \in Identities : CommitText(id[1], id[2], MaxAggCommits) /\ UNCHANGED replay
    \/ \E raw \in Lines : FileHeaderLine(raw) /\ UNCHANGED replay
    \/ \E raw \in Lines : HunkHeaderLine(raw) /\ UNCHANGED replay
    \/ \E raw \in Lines : OutsideHunkLine(raw) /\ UNCHANGED replay
    \/ \E raw \in Lines : BlankLine(raw) /\ UNCHANGED replay
    \/ \E raw \in Lines : NoNewlineLine(raw) /\ UNCHANGED replay
    \/ \E raw \in Lines : RemovedLine(raw, MaxAggCounted) /\ UNCHANGED replay
    \/ \E raw \in Lines : AddedLine(raw, MaxAggCounted) /\ UNCHANGED replay
    \/ \E raw \in Lines : ContextLine(raw) /\ UNCHANGED replay
    \/ EndPatch /\ UNCHANGED replay
    \/ WriteRows /\ UNCHANGED replay

SpecAgg == Init /\ [][NextAgg]_vars

\* the same program on a short commit list with longer patches
NextWalk ==
    \/ \E id \in Identities : CommitFailed(id[1], id[2], MaxWalkCommits) /\ UNCHANGED replay
    \/ \E id \in Identities : CommitEmpty(id[1], id[2], MaxWalkCommits) /\ UNCHANGED replay
    \/ \E id \in Identities : CommitText(id[1], id[2], MaxWalkCommits) /\ UNCHANGED replay
    \/ \E raw \in Lines : FileHeaderLine(raw) /\ UNCHANGED replay
    \/ \E raw \in Lines : HunkHeaderLine(raw) /\ UNCHANGED replay
    \/ \E raw \in Lines : OutsideHunkLine(raw) /\ UNCHANGED replay
    \/ \E raw \in Lines : BlankLine(raw) /\ UNCHANGED replay
    \/ \E raw \in Lines : NoNewlineLine(raw) /\ UNCHANGED replay
    \/ \E raw \in Lines : RemovedLine(raw, MaxWalkCounted) /\ UNCHANGED replay
    \/ \E raw \in Lines : AddedLine(raw, MaxWalkCounted) /\ UNCHANGED replay
    \/ \E raw \in Lines : ContextLine(raw) /\ UNCHANGED replay
    \/ EndPatch /\ UNCHANGED replay
    \/ WriteRows /\ UNCHANGED replay

SpecWalk == Init /\ [][NextWalk]_vars

\* --------------------------------------------- levenshtein on its own inputs
Alphabet == {"a", "b", "c"}

Strings == UNION {[1..n -> Alphabet] : n \in 0..MaxStrLen}

InitLev ==
    /\ InitMain
    /\ group_by = "name"
    /\ levA \in Strings
    /\ levB \in Strings
    /\ levOut = -1
    /\ NoReplay

LevCall ==
    /\ levOut = -1
    /\ levOut' = levenshtein(levA, levB)
    /\ UNCHANGED <<group_by, commits, key, patch, pc, walker, counters, aliases,
                   errors, flushlog, output, levA, levB>>

NextLev == LevCall /\ UNCHANGED replay

SpecLev == InitLev /\ [][NextLev]_vars

\* ------------------------------------ runs over a repository given in advance
\* The commit list and every patch are fixed before the run, so that a state
\* tells which line the walk is at, and a second run can enumerate the same
\* commits in another order.

\* the commit the loop is about to take, and the one it is processing
ReplayNext == history[replay_order[Len(commits) + 1]]

ReplayCommit == history[replay_order[Len(commits)]]

\* the line "for raw in patch.splitlines()" takes next
ReplayRaw == ReplayCommit[3][line_no + 1]

ReplayCommitEmpty ==
    /\ Len(commits) < Len(history)
    /\ ReplayNext[3] = <<>>
    /\ CommitEmpty(ReplayNext[1], ReplayNext[2], Len(history))
    /\ UNCHANGED replay

ReplayCommitText ==
    /\ Len(commits) < Len(history)
    /\ ReplayNext[3] # <<>>
    /\ CommitText(ReplayNext[1], ReplayNext[2], Len(history))
    /\ line_no' = 0
    /\ UNCHANGED <<history, replay_order, runs_left, first_totals>>

\* one more iteration of the loop over the patch's lines
ReplayAdvance ==
    /\ pc \in {"patch", "walk"}
    /\ line_no < Len(ReplayCommit[3])
    /\ line_no' = line_no + 1
    /\ UNCHANGED <<history, replay_order, runs_left, first_totals>>

ReplayFileHeaderLine == ReplayAdvance /\ FileHeaderLine(ReplayRaw)

ReplayHunkHeaderLine == ReplayAdvance /\ HunkHeaderLine(ReplayRaw)

ReplayOutsideHunkLine == ReplayAdvance /\ OutsideHunkLine(ReplayRaw)

ReplayBlankLine == ReplayAdvance /\ BlankLine(ReplayRaw)

ReplayNoNewlineLine == ReplayAdvance /\ NoNewlineLine(ReplayRaw)

\* the patch is given, so no bound on the counted lines is needed
ReplayRemovedLine == ReplayAdvance /\ RemovedLine(ReplayRaw, Counted + 1)

ReplayAddedLine == ReplayAdvance /\ AddedLine(ReplayRaw, Counted + 1)

ReplayContextLine == ReplayAdvance /\ ContextLine(ReplayRaw)

\* the loop over the lines is exhausted
ReplayEndPatch ==
    /\ pc = "walk"
    /\ line_no = Len(ReplayCommit[3])
    /\ EndPatch
    /\ UNCHANGED replay

\* the first run is over: its counters are kept aside and main() is started
\* again, with fresh containers, on the same commits in any order
ReplayRestart ==
    /\ pc = "commit"
    /\ Len(commits) = Len(history)
    /\ runs_left > 0
    /\ runs_left' = runs_left - 1
    /\ first_totals' = counters
    /\ replay_order' \in Orderings(1..Len(history))
    /\ line_no' = 0
    /\ commits' = <<>>
    /\ key' = <<>>
    /\ patch' = "none"
    /\ pc' = "commit"
    /\ in_hunk' = FALSE
    /\ del_buffer' = <<>>
    /\ add_buffer' = <<>>
    /\ added_lines' = EmptyDict
    /\ deleted_lines' = EmptyDict
    /\ commits_count' = EmptyDict
    /\ added_chars' = EmptyDict
    /\ deleted_chars' = EmptyDict
    /\ modified_chars' = EmptyDict
    /\ author_names_by_email' = EmptyDict
    /\ canonical_email' = EmptyDict
    /\ emails_by_name' = EmptyDict
    /\ canonical_name' = EmptyDict
    /\ errors' = 0
    /\ flush_pairs' = EmptyDict
    /\ flush_surplus_added' = EmptyDict
    /\ flush_surplus_deleted' = EmptyDict
    /\ UNCHANGED <<group_by, history, output, levvars>>

ReplayWriteRows ==
    /\ Len(commits) = Len(history)
    /\ runs_left = 0
    /\ WriteRows
    /\ UNCHANGED replay

\* patches of the commits of SpecPerm: a pair left to the end of the patch; a
\* line before any hunk, then a hunk with every kind of line; an added line
\* left to the end of the patch
PermPatches ==
    { <<>>,
      << <<"@", "@">>, <<"-", "a", "b", "c">>, <<"+", "a", "b", "d">> >>,
      << <<"+", "a", "b", "d">>, <<"d", "i", "f", "f", " ">>, <<"@", "@">>,
         <<"-", "d", "e">>, <<>>, <<"-">> \o NoNewlineMarker, <<" ", "a">> >>,
      << <<"@", "@">>, <<"+", "a", "b", "d">> >> }

\* two runs over the same commits, the second in any order
InitPerm ==
    /\ InitMain
    /\ levA = <<>>
    /\ levB = <<>>
    /\ levOut = -1
    /\ history \in [1..MaxPermCommits ->
                        {<<id[1], id[2], p>> : id \in Identities, p \in PermPatches}]
    /\ replay_order = [n \in 1..MaxPermCommits |-> n]
    /\ line_no = 0
    /\ runs_left = 1
    /\ first_totals = <<>>

NextPerm ==
    \/ ReplayCommitEmpty
    \/ ReplayCommitText
    \/ ReplayFileHeaderLine
    \/ ReplayHunkHeaderLine
    \/ ReplayOutsideHunkLine
    \/ ReplayBlankLine
    \/ ReplayNoNewlineLine
    \/ ReplayRemovedLine
    \/ ReplayAddedLine
    \/ ReplayContextLine
    \/ ReplayEndPatch
    \/ ReplayRestart
    \/ ReplayWriteRows

SpecPerm == InitPerm /\ [][NextPerm]_vars

\* the patches of SpecScan: every sequence of lines up to MaxScanLen, as it
\* is and after a hunk header
ScanPatches ==
    LET free == UNION {[1..n -> Lines] : n \in 0..MaxScanLen}
    IN free \cup {<< <<"@", "@">> >> \o q : q \in free}

\* a commit whose patch ends inside a hunk
ScanFirst == <<<<"A">>, <<"x">>, << <<"@", "@">>, <<"-", "a", "b", "c">> >> >>

\* one run over one commit with any patch, or over ScanFirst and a commit
\* with a patch of PermPatches
InitScan ==
    /\ InitMain
    /\ levA = <<>>
    /\ levB = <<>>
    /\ levOut = -1
    /\ history \in {<< <<<<"A">>, <<"x">>, p>> >> : p \in ScanPatches}
                    \cup {<<ScanFirst, <<<<"B">>, <<"X">>, p>> >> : p \in PermPatches}
    /\ replay_order = [n \in 1..Len(history) |-> n]
    /\ line_no = 0
    /\ runs_left = 0
    /\ first_totals = <<>>

NextScan ==
    \/ ReplayCommitEmpty
    \/ ReplayCommitText
    \/ ReplayFileHeaderLine
    \/ ReplayHunkHeaderLine
    \/ ReplayOutsideHunkLine
    \/ ReplayBlankLine
    \/ ReplayNoNewlineLine
    \/ ReplayRemovedLine
    \/ ReplayAddedLine
    \/ ReplayContextLine
    \/ ReplayEndPatch
    \/ ReplayWriteRows

SpecScan == InitScan /\ [][NextScan]_vars

\* ------------------------------------------------------------------ claims
\* every key a commit of Identities can resolve to
AllKeys == {casefold(id[1]) : id \in Identities} \cup {casefold(id[2]) : id \in Identities}

\* the reference recurrence of the edit distance, on the first characters
RECURSIVE EditDistance(_, _)
EditDistance(s, t) ==
    IF s = <<>> THEN Len(t)
    ELSE IF t = <<>> THEN Len(s)
    ELSE Min3(EditDistance(Tail(s), t) + 1,
              EditDistance(s, Tail(t)) + 1,
              EditDistance(Tail(s), Tail(t)) + (IF Head(s) = Head(t) THEN 0 ELSE 1))

\* C1: for every pair of strings, levenshtein returns the minimum number of
\* single-character insertions, deletions and substitutions turning one into
\* the other: it agrees with the reference recurrence.
C1_LevenshteinIsEditDistance ==
    levOut # -1 => levOut = EditDistance(levA, levB)

\* a call on two different non-empty strings, the longer one first, so that the
\* arguments were swapped and the rows were filled
C1_Witness ==
    /\ levOut = 2
    /\ Len(levA) = 3
    /\ Len(levB) = 2
    /\ levA[1] = levB[1]

\* sum over i <= p of levenshtein(R[i], A[i])
RECURSIVE PairedDistance(_, _, _)
PairedDistance(R, A, p) ==
    IF p = 0 THEN 0 ELSE PairedDistance(R, A, p - 1) + levenshtein(R[p], A[p])

\* sum of len(B[i]) over i > p
RECURSIVE SurplusLength(_, _)
SurplusLength(B, p) ==
    IF Len(B) <= p THEN 0 ELSE Len(B[Len(B)]) + SurplusLength(SubSeq(B, 1, Len(B) - 1), p)

\* counter c of key k grows by n over the step, those of the other keys by nothing
GrowsBy(c, cNext, k, n) ==
    \A x \in AllKeys : Get(cNext, x) = Get(c, x) + (IF x = k THEN n ELSE 0)

\* buffer b became bNext by one line appended at its end
OneAppended(b, bNext) ==
    Len(bNext) = Len(b) + 1 /\ SubSeq(bNext, 1, Len(b)) = b

CharCountersSame ==
    /\ modified_chars' = modified_chars
    /\ added_chars' = added_chars
    /\ deleted_chars' = deleted_chars

\* the flush of the removed lines "abc", "de" and the added line "abd" has
\* been done: one pair at distance 1, one surplus removed line of length 2
C2_Witness ==
    /\ pc = "walk"
    /\ del_buffer = <<>>
    /\ add_buffer = <<>>
    /\ Get(flush_pairs, key) = 1
    /\ Get(flush_surplus_deleted, key) = 1
    /\ Get(modified_chars, key) = 1
    /\ Get(deleted_chars, key) = 2
    /\ Get(added_chars, key) = 0

\* C2: a flush of removed buffer R and added buffer A for key k pairs R[i] with
\* A[i] for i < p = min(len(R), len(A)): modifiedChars[k] grows by the sum of
\* levenshtein(R[i], A[i]) over the pairs, deletedChars[k] by the lengths of the
\* removed lines past p, addedChars[k] by the lengths of the added lines past p,
\* and both buffers are empty afterwards; no other step changes these counters
\* or takes a line out of a buffer.
C2_FlushDeltas ==
    [][LET p == Min(Len(del_buffer), Len(add_buffer))
       IN \/ /\ del_buffer' = del_buffer
             /\ add_buffer' = add_buffer
             /\ CharCountersSame
          \/ /\ \/ OneAppended(del_buffer, del_buffer') /\ add_buffer' = add_buffer
                \/ OneAppended(add_buffer, add_buffer') /\ del_buffer' = del_buffer
             /\ CharCountersSame
          \/ /\ del_buffer # <<>> \/ add_buffer # <<>>
             /\ del_buffer' = <<>>
             /\ add_buffer' = <<>>
             /\ GrowsBy(modified_chars, modified_chars', key,
                        PairedDistance(del_buffer, add_buffer, p))
             /\ GrowsBy(deleted_chars, deleted_chars', key, SurplusLength(del_buffer, p))
             /\ GrowsBy(added_chars, added_chars', key, SurplusLength(add_buffer, p))]_vars

\* C3: every line counted in addedLines or deletedLines is consumed by one
\* flush, once, as a member of a pair or as a surplus line: for every key the
\* lines counted are the lines consumed in pairs, plus the lines consumed as
\* surplus, plus the lines in the buffer; between commits the buffers are empty.
C3_LineAccounting ==
    /\ \A k \in AllKeys :
          /\ Get(deleted_lines, k) =
                Get(flush_pairs, k) + Get(flush_surplus_deleted, k)
                    + (IF k = key THEN Len(del_buffer) ELSE 0)
          /\ Get(added_lines, k) =
                Get(flush_pairs, k) + Get(flush_surplus_added, k)
                    + (IF k = key THEN Len(add_buffer) ELSE 0)
    /\ pc \in {"commit", "done"} => del_buffer = <<>> /\ add_buffer = <<>>

\* a commit has ended whose lines were consumed both in a pair and as surplus
C3_Witness ==
    /\ pc = "commit"
    /\ Get(deleted_lines, key) = 2
    /\ Get(added_lines, key) = 1
    /\ Get(flush_pairs, key) = 1
    /\ Get(flush_surplus_deleted, key) = 1

\* the folded grouping field of entry n of the commit list
KeyOf(n) ==
    IF group_by = "name" THEN casefold(commits[n][1]) ELSE casefold(commits[n][2])

\* the entries of the commit list grouped under k
CommitsOf(k) == {n \in 1..Len(commits) : KeyOf(n) = k}

\* the step processes one more commit
CommitStep == Len(commits') = Len(commits) + 1

\* C5: a commit whose diff text is empty adds exactly 1 to the commitCount of its
\* key, classifies no line, leaves the line and character counters of every key
\* as they are, and the next commit is processed.
C5_EmptyPatch ==
    [][(CommitStep /\ patch' = "empty") =>
          /\ GrowsBy(commits_count, commits_count',
                     IF group_by = "name" THEN casefold(commits'[Len(commits')][1])
                     ELSE casefold(commits'[Len(commits')][2]), 1)
          /\ added_lines' = added_lines
          /\ deleted_lines' = deleted_lines
          /\ CharCountersSame
          /\ UNCHANGED <<walker, flushlog, errors>>
          /\ pc' = "commit"]_vars

\* a second commit of the same key had an empty patch, after one with lines
C5_Witness ==
    /\ patch = "empty"
    /\ pc = "commit"
    /\ Len(commits) = 2
    /\ Get(commits_count, key) = 2
    /\ Get(deleted_lines, key) = 1
    /\ Get(deleted_chars, key) = 3

\* C6 (as claimed): a commit whose patch cannot be fetched changes no counter,
\* commitCount included, and no alias tally, and the next commit is processed.
C6_FailedCommitContributesNothing ==
    [][(CommitStep /\ patch' = "failed") =>
          /\ UNCHANGED counters
          /\ UNCHANGED aliases
          /\ pc' = "commit"]_vars

C10_NonNegative ==
    /\ \A k \in AllKeys :
          /\ Get(commits_count, k) >= 0
          /\ Get(added_lines, k) >= 0
          /\ Get(deleted_lines, k) >= 0
          /\ Get(added_chars, k) >= 0
          /\ Get(deleted_chars, k) >= 0
          /\ Get(modified_chars, k) >= 0
    /\ \A n \in 1..Len(rows) :
          /\ rows[n].commits >= 0
          /\ rows[n].added_lines >= 0
          /\ rows[n].deleted_lines >= 0
          /\ rows[n].added_plus_deleted_lines >= 0
          /\ rows[n].added_chars >= 0
          /\ rows[n].deleted_chars >= 0
          /\ rows[n].modified_chars >= 0
          /\ rows[n].added_or_modified_chars >= 0

NeverLess(c, cNext) ==
    /\ DOMAIN c \subseteq DOMAIN cNext
    /\ \A k \in AllKeys : Get(cNext, k) >= Get(c, k)

C10_Monotone ==
    /\ NeverLess(commits_count, commits_count')
    /\ NeverLess(added_lines, added_lines')
    /\ NeverLess(deleted_lines, deleted_lines')
    /\ NeverLess(added_chars, added_chars')
    /\ NeverLess(deleted_chars, deleted_chars')
    /\ NeverLess(modified_chars, modified_chars')

GroupField(n) == IF group_by = "name" THEN commits[n][1] ELSE commits[n][2]

AliasField(n) == IF group_by = "name" THEN commits[n][2] ELSE commits[n][1]

\* the keys the entries of the commit list fold to
SeenKeys == {KeyOf(n) : n \in 1..Len(commits)}

\* C4: commits whose names (emails, in by-email mode) are equal after case
\* folding resolve to one key and one record; after commits whose diff was
\* retrieved, empty or not, commitCount[k] is the number of those commits whose
\* folded grouping field is k.
C4_CommitCount ==
    errors = 0 =>
        /\ DOMAIN commits_count = SeenKeys
        /\ \A k \in AllKeys : Get(commits_count, k) = Cardinality(CommitsOf(k))

\* "A" and "a" (by name), or "x" and "X" (by email), were both seen, every
\* diff was retrieved, and their commits are counted under one key
C4_Witness ==
    /\ errors = 0
    /\ Len(commits) = 3
    /\ \E m, n \in 1..Len(commits) :
          /\ GroupField(m) # GroupField(n)
          /\ KeyOf(m) = KeyOf(n)
          /\ Get(commits_count, KeyOf(m)) = 2
    /\ Cardinality(DOMAIN commits_count) = 2

\* the first entry of the commit list grouped under k
FirstCommitOf(k) == CHOOSE n \in CommitsOf(k) : \A m \in CommitsOf(k) : n <= m

\* the canonical display values of the active mode
Canonical == IF group_by = "name" THEN canonical_name ELSE canonical_email

\* the canonical column of a row
CanonicalColumn(row) == IF group_by = "name" THEN row.author ELSE row.email

\* the alias column of a row
AliasColumn(row) == IF group_by = "name" THEN row.email ELSE row.author

C7_FirstSeen ==
    /\ DOMAIN Canonical = SeenKeys
    /\ \A k \in SeenKeys : Canonical[k] = GroupField(FirstCommitOf(k))
    /\ \A n \in 1..Len(rows) :
          CanonicalColumn(rows[n]) = GroupField(FirstCommitOf(row_keys[n]))

C7_Stable ==
    /\ \A k \in DOMAIN canonical_name :
          k \in DOMAIN canonical_name' /\ canonical_name'[k] = canonical_name[k]
    /\ \A k \in DOMAIN canonical_email :
          k \in DOMAIN canonical_email' /\ canonical_email'[k] = canonical_email[k]

AliasesOf(k) == {AliasField(n) : n \in CommitsOf(k)}

AliasCount(k, v) == Cardinality({n \in CommitsOf(k) : AliasField(n) = v})

AliasFirst(k, v) ==
    CHOOSE n \in CommitsOf(k) :
        AliasField(n) = v /\ \A m \in CommitsOf(k) : AliasField(m) = v => n <= m

\* the aliases of k, each once, by descending count and then first seen first
AliasOrder(k) ==
    CHOOSE s \in Orderings(AliasesOf(k)) :
        \A m, n \in 1..Len(s) :
            m < n => \/ AliasCount(k, s[m]) > AliasCount(k, s[n])
                     \/ /\ AliasCount(k, s[m]) = AliasCount(k, s[n])
                        /\ AliasFirst(k, s[m]) < AliasFirst(k, s[n])

\* C8: the alias field of a row (the emails by name, the names by email) lists
\* every distinct value observed for the key exactly once, joined by
\* semicolons, by descending number of commits carrying the value, ties broken
\* by first-seen order.
C8_AliasField ==
    \A n \in 1..Len(rows) :
        AliasColumn(rows[n]) = Join(AliasOrder(row_keys[n]), Semicolon)

\* a row lists two aliases, the one seen second first because two commits
\* carry it
C8_Witness ==
    /\ pc = "done"
    /\ Len(commits) = 3
    /\ KeyOf(1) = KeyOf(2)
    /\ KeyOf(1) = KeyOf(3)
    /\ AliasField(2) = AliasField(3)
    /\ AliasField(1) # AliasField(2)
    /\ AliasColumn(rows[1]) = AliasField(2) \o Semicolon \o AliasField(1)

\* C9: exactly one row is written per key that was seen, and the rows are in
\* non-increasing order of modifiedChars + addedChars.
C9_Rows ==
    pc = "done" =>
        /\ Len(rows) = Cardinality(SeenKeys)
        /\ Len(row_keys) = Len(rows)
        /\ {row_keys[n] : n \in 1..Len(row_keys)} = SeenKeys
        /\ {casefold(CanonicalColumn(rows[n])) : n \in 1..Len(rows)} = SeenKeys
        /\ \A n \in 1..Len(rows) :
              /\ casefold(CanonicalColumn(rows[n])) = row_keys[n]
              /\ rows[n].added_or_modified_chars =
                    Get(modified_chars, row_keys[n]) + Get(added_chars, row_keys[n])
        /\ \A m, n \in 1..Len(rows) :
              m < n => rows[m].added_or_modified_chars >= rows[n].added_or_modified_chars

\* two rows are written, with different positive sums
C9_Witness ==
    /\ pc = "done"
    /\ Len(rows) = 2
    /\ rows[1].added_or_modified_chars > rows[2].added_or_modified_chars
    /\ rows[2].added_or_modified_chars > 0


\* C12: the distance is symmetric: for all strings a and b,
\* levenshtein(a, b) = levenshtein(b, a), also when the call swaps its
\* arguments to make the first one the shorter
C12_Symmetric ==
    levOut # -1 => levOut = levenshtein(levB, levA)

\* a call that swapped its arguments and found a positive distance
C12_Witness ==
    /\ levOut > 0
    /\ Len(levA) > Len(levB)
    /\ Len(levB) > 0

\* C13: levenshtein(a, a) = 0, and the distance between the empty string and
\* a is len(a), whichever of the two arguments is the empty one
C13_SpecialCases ==
    levOut # -1 =>
        /\ levA = levB => levOut = 0
        /\ levA = <<>> => levOut = Len(levB)
        /\ levB = <<>> => levOut = Len(levA)

\* a call with an empty second argument and the longest first argument
C13_Witness ==
    /\ levOut = MaxStrLen
    /\ levB = <<>>
    /\ Len(levA) = MaxStrLen


\* C14: in every output row the derived columns are computed from the
\* counters of the row's own key: added+deleted_lines = addedLines + deletedLines,
\* net_lines = addedLines - deletedLines, added_or_modified_chars =
\* modifiedChars + addedChars, net_chars = addedChars - deletedChars
C14_DerivedColumns ==
    pc = "done" =>
        \A n \in 1..Len(rows) :
            LET k == row_keys[n] IN
            /\ rows[n].added_plus_deleted_lines
                  = Get(added_lines, k) + Get(deleted_lines, k)
            /\ rows[n].net_lines = Get(added_lines, k) - Get(deleted_lines, k)
            /\ rows[n].added_or_modified_chars
                  = Get(modified_chars, k) + Get(added_chars, k)
            /\ rows[n].net_chars = Get(added_chars, k) - Get(deleted_chars, k)

\* a row of a key with one added and two removed lines, one pair and a
\* surplus removed line: both net columns are negative
C14_Witness ==
    /\ pc = "done"
    /\ \E n \in 1..Len(rows) :
          /\ rows[n].added_plus_deleted_lines = 3
          /\ rows[n].net_lines = -1
          /\ rows[n].added_or_modified_chars = 1
          /\ rows[n].net_chars = -2


\* the folded grouping field of the commit a step works on
StepKey ==
    IF group_by = "name" THEN casefold(commits'[Len(commits')][1])
    ELSE casefold(commits'[Len(commits')][2])

\* the record of x in a defaultdict(int) is untouched by the step
SameCount(c, cNext, x) ==
    /\ x \in DOMAIN cNext <=> x \in DOMAIN c
    /\ Get(cNext, x) = Get(c, x)

\* the entry of x in an alias dict is untouched by the step
SameEntry(d, dNext, x) ==
    /\ x \in DOMAIN dNext <=> x \in DOMAIN d
    /\ x \in DOMAIN d => dNext[x] = d[x]

C20_OnlyStepKey ==
    Len(commits') > 0 =>
        \A x \in AllKeys \ {StepKey} :
            /\ SameCount(commits_count, commits_count', x)
            /\ SameCount(added_lines, added_lines', x)
            /\ SameCount(deleted_lines, deleted_lines', x)
            /\ SameCount(added_chars, added_chars', x)
            /\ SameCount(deleted_chars, deleted_chars', x)
            /\ SameCount(modified_chars, modified_chars', x)
            /\ SameEntry(author_names_by_email, author_names_by_email', x)
            /\ SameEntry(canonical_email, canonical_email', x)
            /\ SameEntry(emails_by_name, emails_by_name', x)
            /\ SameEntry(canonical_name, canonical_name', x)

C11_OrderIndependent ==
    (runs_left = 0 /\ pc \in {"commit", "done"} /\ Len(commits) = Len(history))
        => counters = first_totals

\* a second run in another order, over commits of one key with different
\* patches, has ended with that key's lines and characters counted
C11_Witness ==
    /\ runs_left = 0
    /\ pc = "done"
    /\ first_totals # <<>>
    /\ replay_order[1] # 1
    /\ group_by = "name"
    /\ \A n \in 1..Len(history) : casefold(history[n][1]) = <<"a">>
    /\ Len(history[1][3]) = 3
    /\ Len(history[2][3]) > 3
    /\ Get(added_lines, <<"a">>) = 1
    /\ Get(deleted_lines, <<"a">>) = 2
    /\ Get(modified_chars, <<"a">>) = 1


\* the lines of the current patch, and those the walk has consumed
PatchLines == ReplayCommit[3]

\* the step consumes the line TakenLine of the current patch
TakesLine == pc \in {"patch", "walk"} /\ line_no' = line_no + 1

TakenLine == PatchLines[line_no + 1]

\* the first characters of a line, at most n of them
Prefix(raw, n) == SubSeq(raw, 1, IF n < Len(raw) THEN n ELSE Len(raw))

\* a file-header line, by its prefix
FileHeaderPrefix(raw) ==
    \/ Prefix(raw, 5) = <<"d", "i", "f", "f", " ">>
    \/ Prefix(raw, 6) = <<"i", "n", "d", "e", "x", " ">>
    \/ Prefix(raw, 4) = <<"-", "-", "-", " ">>
    \/ Prefix(raw, 4) = <<"+", "+", "+", " ">>

\* a hunk-header line, by its prefix
HunkHeaderPrefix(raw) == Prefix(raw, 2) = <<"@", "@">>

\* the step empties both buffers, and the flush log of the current key
\* grows by the pairs and the surplus lines they held
Flushes ==
    LET pairs == Min(Len(del_buffer), Len(add_buffer)) IN
    /\ del_buffer' = <<>>
    /\ add_buffer' = <<>>
    /\ Get(flush_pairs', key) = Get(flush_pairs, key) + pairs
    /\ Get(flush_surplus_added', key)
          = Get(flush_surplus_added, key) + Len(add_buffer) - pairs
    /\ Get(flush_surplus_deleted', key)
          = Get(flush_surplus_deleted, key) + Len(del_buffer) - pairs

\* INSIDE_HUNK exactly when a hunk header has been consumed in this patch
\* with no file header after it
C15_InHunkIff ==
    pc \in {"patch", "walk"} =>
        (in_hunk <=> \E i \in 1..line_no :
                        /\ HunkHeaderPrefix(PatchLines[i])
                        /\ ~FileHeaderPrefix(PatchLines[i])
                        /\ \A j \in (i + 1)..line_no : ~FileHeaderPrefix(PatchLines[j]))

\* a file-header line flushes, leaves the walk outside any hunk, and is
\* neither counted nor buffered, whatever the state it is met in
C15_FileHeaderFirst ==
    (TakesLine /\ FileHeaderPrefix(TakenLine)) =>
        /\ Flushes
        /\ in_hunk' = FALSE
        /\ UNCHANGED <<added_lines, deleted_lines>>

\* C15: the walk of every commit starts OUTSIDE_HUNK, and it is INSIDE_HUNK
\* exactly when a hunk header has been processed in this commit with no file
\* header after it (so no other line changes the state); the file-header
\* prefixes are tested before every other rule, so a line starting "--- " or
\* "+++ " met INSIDE_HUNK flushes, sets OUTSIDE_HUNK, and is neither counted
\* nor buffered
C15_WalkerState == [](C15_InHunkIff) /\ [][C15_FileHeaderFirst]_vars

\* a "--- " line met inside a hunk with a removed line buffered: the line
\* before it was flushed as a surplus line and only that one was counted
C15_Witness ==
    /\ Len(history) = 1
    /\ pc = "walk"
    /\ line_no = 3
    /\ PatchLines[1] = <<"@", "@">>
    /\ PatchLines[2] = <<"-", "a", "b", "c">>
    /\ PatchLines[3] = <<"-", "-", "-", " ", "a">>
    /\ ~in_hunk
    /\ del_buffer = <<>>
    /\ Get(deleted_lines, key) = 1
    /\ Get(flush_surplus_deleted, key) = 1


\* a line that ends a run of removed and added lines, by its shape
BoundaryShape(raw) ==
    \/ FileHeaderPrefix(raw)
    \/ HunkHeaderPrefix(raw)
    \/ raw = <<>>
    \/ raw[1] \notin {"-", "+"}

\* the last line with the shape of a boundary among the first n (0: none)
RECURSIVE LastBoundary(_, _)
LastBoundary(lines, n) ==
    IF n = 0 THEN 0
    ELSE IF BoundaryShape(lines[n]) THEN n
    ELSE LastBoundary(lines, n - 1)

\* the contents of the lines from..to that start with sign and do not carry
\* the no-newline marker, in order
RECURSIVE ContentsOf(_, _, _, _)
ContentsOf(lines, from, to, sign) ==
    IF from > to THEN <<>>
    ELSE LET raw == lines[from]
             rest == ContentsOf(lines, from + 1, to, sign)
         IN IF raw # <<>> /\ raw[1] = sign
               /\ Prefix(Tail(raw), Len(NoNewlineMarker)) # NoNewlineMarker
            THEN <<Tail(raw)>> \o rest
            ELSE rest

\* inside a hunk the buffers hold the removed and added lines consumed
\* since the last boundary, and no other
C16_BuffersSinceBoundary ==
    (pc \in {"patch", "walk"} /\ in_hunk) =>
        LET b == LastBoundary(PatchLines, line_no) IN
        /\ del_buffer = ContentsOf(PatchLines, b + 1, line_no, "-")
        /\ add_buffer = ContentsOf(PatchLines, b + 1, line_no, "+")

\* a header line, and inside a hunk an empty or context line, flushes
C16_BoundaryFlushes ==
    (/\ TakesLine
     /\ \/ FileHeaderPrefix(TakenLine)
        \/ HunkHeaderPrefix(TakenLine)
        \/ in_hunk /\ BoundaryShape(TakenLine))
    => Flushes

\* C16: pairing never crosses a boundary: inside a hunk an empty line or any
\* other context line, and anywhere a hunk header or a file header, flushes
\* the buffers and leaves both empty; so the buffers a flush pairs up hold
\* only removed and added lines with no boundary line between them in the
\* same commit
C16_NoPairAcrossBoundary ==
    [](C16_BuffersSinceBoundary) /\ [][C16_BoundaryFlushes]_vars

\* a removed line, a context line, an added line: the removed line was
\* flushed as a surplus line, and the added line waits alone
C16_Witness ==
    /\ Len(history) = 1
    /\ pc = "walk"
    /\ line_no = 4
    /\ PatchLines[2] = <<"-", "a", "b", "c">>
    /\ PatchLines[3] = <<" ", "a">>
    /\ PatchLines[4] = <<"+", "a", "b", "d">>
    /\ in_hunk
    /\ del_buffer = <<>>
    /\ add_buffer = << <<"a", "b", "d">> >>
    /\ Get(flush_pairs, key) = 0
    /\ Get(flush_surplus_deleted, key) = 1


\* between commits, and before the first line of a patch, both buffers are
\* empty
C17_BuffersEmptyBetweenCommits ==
    pc \in {"commit", "patch", "done"} => (del_buffer = <<>> /\ add_buffer = <<>>)

\* the step that ends a patch flushes what the buffers hold, to the key of
\* the commit the patch belongs to
C17_FinalFlush ==
    (pc = "walk" /\ pc' = "commit") => (key = KeyOf(Len(commits)) /\ Flushes)

\* C17: when the lines of a patch are exhausted a final flush is made, so
\* both buffers are empty when the processing of a commit ends, and they are
\* empty when the next commit starts: the lines of one commit are never
\* paired, nor attributed, with those of another
C17_PerCommitScoping ==
    [](C17_BuffersEmptyBetweenCommits) /\ [][C17_FinalFlush]_vars

\* two commits of one key: the first patch ends with an added line waiting,
\* the second holds a removed line; both were flushed as surplus lines
C17_Witness ==
    /\ group_by = "name"
    /\ pc = "commit"
    /\ Len(commits) = 2
    /\ KeyOf(1) = KeyOf(2)
    /\ history[replay_order[1]][3] = << <<"@", "@">>, <<"+", "a", "b", "d">> >>
    /\ Len(history[replay_order[2]][3]) > 3
    /\ Get(flush_pairs, key) = 0
    /\ Get(flush_surplus_added, key) = 1
    /\ Get(flush_surplus_deleted, key) = 1


\* C18: outside any hunk a line that is neither a file header nor a hunk
\* header is ignored whatever its shape: no counter changes, no buffer
\* changes, no flush is made, and the walk stays OUTSIDE_HUNK
C18_IgnoredOutsideHunk ==
    [][(/\ TakesLine
        /\ ~in_hunk
        /\ ~FileHeaderPrefix(TakenLine)
        /\ ~HunkHeaderPrefix(TakenLine))
       => (/\ in_hunk' = FALSE
           /\ UNCHANGED <<del_buffer, add_buffer, counters, flushlog>>)]_vars

\* an added line, a removed line and a context line before any hunk header:
\* nothing was counted
C18_Witness ==
    /\ Len(history) = 1
    /\ pc = "walk"
    /\ line_no = 3
    /\ PatchLines[1] = <<"+", "a", "b", "d">>
    /\ PatchLines[2] = <<"-", "a", "b", "c">>
    /\ PatchLines[3] = <<" ", "a">>
    /\ ~in_hunk
    /\ Get(added_lines, key) = 0
    /\ Get(deleted_lines, key) = 0

\* the content of a '-' or '+' line starts with the no-newline marker
MarkerContent(raw) == Prefix(Tail(raw), Len(NoNewlineMarker)) = NoNewlineMarker

\* C19: inside a hunk a '-' or '+' line whose remainder starts with the
\* no-newline marker is skipped entirely (not counted, not buffered, no
\* flush, state unchanged); every other '-' or '+' line that is not a file
\* header adds exactly 1 to deletedLines or addedLines of the current key and
\* appends its content, without the leading character, to the end of the
\* removed or added buffer
C19_CountedLines ==
    [][(/\ TakesLine
        /\ in_hunk
        /\ ~FileHeaderPrefix(TakenLine)
        /\ TakenLine # <<>>
        /\ TakenLine[1] \in {"-", "+"})
       => IF MarkerContent(TakenLine)
          THEN UNCHANGED <<in_hunk, del_buffer, add_buffer, counters, flushlog>>
          ELSE IF TakenLine[1] = "-"
          THEN /\ GrowsBy(deleted_lines, deleted_lines', key, 1)
               /\ del_buffer' = Append(del_buffer, Tail(TakenLine))
               /\ UNCHANGED <<in_hunk, add_buffer, added_lines, commits_count,
                              added_chars, deleted_chars, modified_chars, flushlog>>
          ELSE /\ GrowsBy(added_lines, added_lines', key, 1)
               /\ add_buffer' = Append(add_buffer, Tail(TakenLine))
               /\ UNCHANGED <<in_hunk, del_buffer, deleted_lines, commits_count,
                              added_chars, deleted_chars, modified_chars, flushlog>>]_vars

\* a removed line, a '-' line with the marker, an added line: the marker
\* line was not counted and the two others wait in their buffers
C19_Witness ==
    /\ Len(history) = 1
    /\ pc = "walk"
    /\ line_no = 4
    /\ PatchLines[2] = <<"-", "d", "e">>
    /\ PatchLines[3] = <<"-">> \o NoNewlineMarker
    /\ PatchLines[4] = <<"+", "a", "b", "d">>
    /\ in_hunk
    /\ Get(deleted_lines, key) = 1
    /\ Get(added_lines, key) = 1
    /\ del_buffer = << <<"d", "e">> >>
    /\ add_buffer = << <<"a", "b", "d">> >>


\* outside any hunk both buffers are empty
C21_EmptyOutsideHunk ==
    ~in_hunk => (del_buffer = <<>> /\ add_buffer = <<>>)

\* a buffer grows only inside a hunk, and a step that leaves a hunk flushes
C21_BufferedOnlyInside ==
    /\ (Len(del_buffer') > Len(del_buffer) \/ Len(add_buffer') > Len(add_buffer))
          => (in_hunk /\ in_hunk')
    /\ (in_hunk /\ ~in_hunk') => Flushes

\* C21: in every reachable state of the walker, OUTSIDE_HUNK implies that
\* the removed buffer and the added buffer are both empty: lines are
\* buffered only while INSIDE_HUNK, and every transition to OUTSIDE_HUNK
\* comes with a flush
C21_OutsideHunkBuffersEmpty ==
    [](C21_EmptyOutsideHunk) /\ [][C21_BufferedOnlyInside]_vars

\* a removed and an added line were waiting inside a hunk when a "diff "
\* line took the walk outside: they were flushed as a pair
C21_Witness ==
    /\ Len(history) = 1
    /\ pc = "walk"
    /\ line_no = 4
    /\ PatchLines[2] = <<"-", "a", "b", "c">>
    /\ PatchLines[3] = <<"+", "a", "b", "d">>
    /\ PatchLines[4] = <<"d", "i", "f", "f", " ">>
    /\ ~in_hunk
    /\ del_buffer = <<>>
    /\ add_buffer = <<>>
    /\ Get(flush_pairs, key) = 1

====
